---- MODULE Spec2Model ----
(***************************************************************************)
(* Model of docs/serve_docs.py: a socketserver.TCPServer with a            *)
(* SimpleHTTPRequestHandler rooted at DIRECTORY, started by main(), which  *)
(* opens a browser, runs serve_forever() and calls shutdown() when a       *)
(* KeyboardInterrupt reaches its except clause.                            *)
(*                                                                         *)
(* The behaviour of the library classes the script instantiates            *)
(* (TCPServer, BaseServer, SimpleHTTPRequestHandler, webbrowser.open) is   *)
(* modelled at the line of the script that calls them.                     *)
(***************************************************************************)
EXTENDS Integers, Sequences, FiniteSets, TLC

VARIABLES
    pc,          \* pc[i]: where instance i's main() is
    srv,         \* srv[i]: the TCPServer object of instance i (httpd)
    nInt,        \* nInt[i]: interrupts delivered to instance i so far
    intAt,       \* intAt[i]: pc[i] when the first interrupt was delivered
    browser,     \* browser[i]: outcome of webbrowser.open in instance i
    unhandled,   \* unhandled[i]: exception that left main(), or "none"
    exitStatus,  \* exitStatus[i]: process exit status, -1 while running
    printed,     \* printed[i]: messages main() printed, in order
    everServed,  \* everServed[i]: serve_forever() was entered
    busyAtBind,  \* busyAtBind[i]: the port was held when instance i bound
    portOwner,   \* instance whose listening socket holds PORT, 0 if none
    backlog,     \* backlog[i]: connections queued on i's listening socket
    active,      \* active[i]: connections whose handler is running
    accepted,    \* accepted[i]: connection ids in the order accepted
    handled,     \* handled[i]: connection ids in the order handling ended
    sent,        \* sent[c]: what connection c's client received
    conns,       \* conns[c]: the request connection c carries
    req,         \* the request of the handler under test (SpecHTTP)
    resp,        \* its response, NoResp before it is handled
    obj,         \* a server object driven by a caller (SpecShutdown)
    callPc,      \* the caller: where it is, and how the loop was when it called
    calls        \* what was done to obj, in order

vars == <<pc, srv, nInt, intAt, browser, unhandled, exitStatus, printed,
          everServed, busyAtBind, portOwner, backlog, active, accepted,
          handled, sent, conns, req, resp, obj, callPc, calls>>

lifeVars == <<pc, srv, nInt, intAt, browser, unhandled, exitStatus, printed,
              everServed, busyAtBind, portOwner, backlog, active, accepted,
              handled, sent, conns>>
httpVars == <<req, resp>>
callVars == <<obj, callPc, calls>>

\* ------------------------------------------------------------- bounds
MaxSegs == 3        \* segments in a request path
MaxConn == 2        \* connections clients open in one run
MaxInterrupts == 2  \* interrupts delivered to one instance
MaxCalls == 6       \* operations on the server object of SpecShutdown

\* ---------------------------------------------------------- constants
PORT == 8088
DIRECTORY == <<"docs">>

\* The two processes started from the script.
Instances == {1, 2}

\* ------------------------------------------------------- file system
\* The tree the script is installed in: DIRECTORY and what lies beside it.
\* A path is the sequence of names from "/".
FS ==
    (<<>> :> [type |-> "dir", content |-> "", readable |-> TRUE]) @@
    (<<"secret.txt">> :> [type |-> "file", content |-> "SECRET", readable |-> TRUE]) @@
    (<<"swagger.html">> :> [type |-> "file", content |-> "OUTSIDE", readable |-> TRUE]) @@
    (<<"docs">> :> [type |-> "dir", content |-> "", readable |-> TRUE]) @@
    (<<"docs", "swagger.html">> :> [type |-> "file", content |-> "<html>OK</html>", readable |-> TRUE]) @@
    (<<"docs", "locked.txt">> :> [type |-> "file", content |-> "LOCKED", readable |-> FALSE]) @@
    (<<"docs", "sub">> :> [type |-> "dir", content |-> "", readable |-> TRUE]) @@
    (<<"docs", "sub", "a.txt">> :> [type |-> "file", content |-> "SUB", readable |-> TRUE]) @@
    (<<"docs", "sub", "index.html">> :> [type |-> "file", content |-> "INDEX", readable |-> TRUE])

Exists(p) == p \in DOMAIN FS
IsDir(p) == Exists(p) /\ FS[p].type = "dir"
IsFile(p) == Exists(p) /\ FS[p].type = "file"
Inside(p) == Len(p) >= Len(DIRECTORY) /\ SubSeq(p, 1, Len(DIRECTORY)) = DIRECTORY

Parent(p) == IF p = <<>> THEN <<>> ELSE SubSeq(p, 1, Len(p) - 1)

\* What the operating system makes of a path handed to open() or stat():
\* the walk from cur over segs, "." staying, ".." going up, a name entering
\* a directory. ok is FALSE when a name is not there.
RECURSIVE Walk(_, _)
Walk(cur, segs) ==
    IF segs = <<>> THEN [ok |-> TRUE, at |-> cur]
    ELSE LET s == Head(segs) IN
         IF ~IsDir(cur) THEN [ok |-> FALSE, at |-> cur]
         ELSE IF s = "." \/ s = "" THEN Walk(cur, Tail(segs))
         ELSE IF s = ".." THEN Walk(Parent(cur), Tail(segs))
         ELSE IF Exists(Append(cur, s)) THEN Walk(Append(cur, s), Tail(segs))
         ELSE [ok |-> FALSE, at |-> cur]

\* ------------------------------------------------------------ requests
\* A request line's path is written as its segments: "/a/b/" is
\* [abs |-> TRUE, segs |-> <<"a", "b">>, slash |-> TRUE]. ims is what the
\* If-Modified-Since header says against the file's modification time
\* ("absent"; "ignored" for an ill-formed date or one not in GMT, which
\* send_head skips; "older" and "notOlder" for a GMT date before, or not
\* before, that time); inm is whether If-None-Match is present.
Tokens == {"..", ".", "%2e%2e", "swagger.html", "sub", "a.txt", "secret.txt", "locked.txt"}
Methods == {"GET", "HEAD", "POST"}
ImsKinds == {"absent", "ignored", "older", "notOlder"}

RECURSIVE SeqsUpTo(_, _)
SeqsUpTo(S, n) ==
    IF n = 0 THEN {<<>>}
    ELSE LET shorter == SeqsUpTo(S, n - 1) IN
         shorter \cup {Append(q, x) : q \in {r \in shorter : Len(r) = n - 1}, x \in S}

Paths == SeqsUpTo(Tokens, MaxSegs)

RequestSpace ==
    {r \in [method : Methods, abs : BOOLEAN, segs : Paths, slash : BOOLEAN,
            ims : ImsKinds, inm : BOOLEAN] :
        \* a request line has a path: "" is not one, and "/" is written once
        r.segs = <<>> => (r.abs /\ r.slash)}

NoResp == [status |-> 0, kind |-> "none", body |-> "", from |-> <<>>]
Reply(status, kind, body, from) ==
    [status |-> status, kind |-> kind, body |-> body, from |-> from]
SendError(status) == Reply(status, "error", "error page", <<>>)

\* urllib.parse.unquote on one segment.
Unquote(s) == IF s = "%2e%2e" THEN ".." ELSE s

UnquoteAll(segs) == [k \in 1..Len(segs) |-> Unquote(segs[k])]

\* posixpath.normpath on the components of a path: "" and "." are dropped,
\* ".." removes the component before it, is dropped at the top of an
\* absolute path and is kept at the top of a relative one.
RECURSIVE NormComps(_, _, _)
NormComps(comps, acc, abs) ==
    IF comps = <<>> THEN acc
    ELSE LET c == Head(comps) IN
         IF c = "" \/ c = "." THEN NormComps(Tail(comps), acc, abs)
         ELSE IF c # ".." \/ (~abs /\ acc = <<>>)
                 \/ (acc # <<>> /\ acc[Len(acc)] = "..")
              THEN NormComps(Tail(comps), Append(acc, c), abs)
         ELSE IF acc # <<>>
              THEN NormComps(Tail(comps), SubSeq(acc, 1, Len(acc) - 1), abs)
         ELSE NormComps(Tail(comps), acc, abs)

NormPath(r) == NormComps(UnquoteAll(r.segs), <<>>, r.abs)

\* The words translate_path joins to the directory: those that are a
\* simple name, "." and ".." ignored.
RECURSIVE SimpleWords(_)
SimpleWords(words) ==
    IF words = <<>> THEN <<>>
    ELSE IF Head(words) \in {"", ".", ".."} THEN SimpleWords(Tail(words))
    ELSE <<Head(words)>> \o SimpleWords(Tail(words))

\* path.rstrip().endswith('/') on the request path.
TrailingSlash(r) == r.slash \/ r.segs = <<>>

\* A translation that joins the request's segments to the directory as
\* they come and leaves ".." to the operating system.
NaiveTranslatePath(r) ==
    [words |-> DIRECTORY \o UnquoteAll(r.segs), slash |-> TrailingSlash(r)]

\* A translation that skips posixpath.normpath: ".." is ignored where it
\* stands and takes no segment with it.
TranslatePathNoNorm(r) ==
    [words |-> DIRECTORY \o SimpleWords(UnquoteAll(r.segs)),
     slash |-> TrailingSlash(r)]

\* SimpleHTTPRequestHandler.translate_path with directory = DIRECTORY.
TranslatePath(r) ==
    [words |-> DIRECTORY \o SimpleWords(NormPath(r)), slash |-> TrailingSlash(r)]

\* open(path, 'rb'): the file, when the path names a readable regular file.
CanOpen(w, slash) == w.ok /\ ~slash /\ IsFile(w.at) /\ FS[w.at].readable

\* The If-Modified-Since test of send_head: the header is there,
\* If-None-Match is not, and the file is not newer than the date.
NotModified(r) == r.ims = "notOlder" /\ ~r.inm

\* send_head once the path is that of a file (or of nothing).
SendFile(r, words, slash) ==
    LET w == Walk(<<>>, words) IN
    IF slash THEN SendError(404)
    ELSE IF ~CanOpen(w, slash) THEN SendError(404)
    ELSE IF NotModified(r) THEN Reply(304, "empty", "", <<>>)
    ELSE Reply(200, "file", FS[w.at].content, w.at)

\* list_directory.
ListDirectory(dir) ==
    IF ~FS[dir].readable THEN SendError(404)
    ELSE Reply(200, "listing", "listing", dir)

\* SimpleHTTPRequestHandler.send_head: the response to a GET.
SendHead(r) ==
    LET t == TranslatePath(r)
        w == Walk(<<>>, t.words)
    IN  IF w.ok /\ IsDir(w.at)
        THEN IF ~TrailingSlash(r) THEN Reply(301, "empty", "", <<>>)
             ELSE IF IsFile(Append(w.at, "index.html"))
                  THEN SendFile(r, Append(w.at, "index.html"), FALSE)
             ELSE IF IsFile(Append(w.at, "index.htm"))
                  THEN SendFile(r, Append(w.at, "index.htm"), FALSE)
             ELSE ListDirectory(w.at)
        ELSE SendFile(r, t.words, t.slash)

\* handle_one_request: do_GET copies the file, do_HEAD sends the headers
\* only, another method has no do_ method.
DoRequest(r) ==
    IF r.method = "GET" THEN SendHead(r)
    ELSE IF r.method = "HEAD"
         THEN LET h == SendHead(r) IN
              IF h.kind \in {"file", "listing"}
              THEN Reply(h.status, "empty", "", <<>>) ELSE h
    ELSE SendError(501)

\* ---------------------------------------------- the handler on its own
InitHTTP == req \in RequestSpace /\ resp = NoResp

HandleRequest ==
    /\ resp = NoResp
    /\ resp' = DoRequest(req)
    /\ UNCHANGED req

\* ---------------------------------------------------- the server object
\* BaseServer.__init__ with server_address ("", PORT): the event is unset,
\* no shutdown is requested.
NewServer ==
    [port |-> PORT, sock |-> "none", shutdown_request |-> FALSE,
     is_shut_down |-> FALSE, loop |-> FALSE]

\* A socket bound with SO_REUSEPORT: bind() succeeds on a held port.
BindAlwaysSucceeds(owner) == TRUE

\* server_bind with allow_reuse_address and allow_reuse_port left False:
\* bind() succeeds when no listening socket holds the port.
BindSucceeds(owner) == owner = 0

\* server_bind and server_activate.
Listen(s) == [s EXCEPT !.sock = "listening"]

\* serve_forever, on entry: self.__is_shut_down.clear().
ServeForeverEnter(s) == [s EXCEPT !.is_shut_down = FALSE, !.loop = TRUE]

\* A finally clause that does not set the event.
ServeForeverLeaveNoSet(s) ==
    [s EXCEPT !.shutdown_request = FALSE, !.loop = FALSE]

\* serve_forever, its finally clause, however the loop ended.
ServeForeverLeave(s) ==
    [s EXCEPT !.shutdown_request = FALSE, !.is_shut_down = TRUE, !.loop = FALSE]

\* A shutdown() that re-arms the event before it waits on it.
ShutdownRequestClearing(s) ==
    [s EXCEPT !.shutdown_request = TRUE, !.is_shut_down = FALSE]

\* shutdown(), its first statement.
ShutdownRequest(s) == [s EXCEPT !.shutdown_request = TRUE]

\* shutdown(), its second statement: self.__is_shut_down.wait() returns
\* once the event is set.
ShutdownReturns(s) == s.is_shut_down

\* server_close(): the listening socket is closed.
ServerClose(s) == [s EXCEPT !.sock = "closed"]

\* ---------------------------------------------------------- main()
\* What clients may send in a run of the whole program.
LifeRequests ==
    {[method |-> "GET", abs |-> TRUE, segs |-> <<"swagger.html">>, slash |-> FALSE,
      ims |-> "absent", inm |-> FALSE],
     [method |-> "GET", abs |-> TRUE, segs |-> <<"a.txt">>, slash |-> FALSE,
      ims |-> "absent", inm |-> FALSE],
     [method |-> "GET", abs |-> TRUE, segs |-> <<"locked.txt">>, slash |-> FALSE,
      ims |-> "absent", inm |-> FALSE]}

\* A connection: its request, and whether the client goes away before the
\* handler is done with it (the handler then raises an OSError).
LifeConns ==
    {[req |-> r, drops |-> FALSE] : r \in LifeRequests}
    \cup {[req |-> r, drops |-> TRUE] :
            r \in {q \in LifeRequests : q.segs = <<"swagger.html">>}}

ConnReset == [status |-> 0, kind |-> "reset", body |-> "", from |-> <<>>]

Running == {"created", "browser", "select", "handling", "except", "shutdown"}

\* The states of the server's life, read off main()'s position.
State(i) ==
    CASE pc[i] = "start" -> "NotStarted"
      [] pc[i] \in {"created", "browser"} -> "Created"
      [] pc[i] \in {"select", "handling"} -> "Listening"
      [] pc[i] \in {"except", "shutdown"} -> "ShuttingDown"
      [] pc[i] = "exited" /\ srv[i].sock = "closed" /\ everServed[i] -> "Stopped"
      [] OTHER -> "Failed"

InitLife ==
    /\ pc = [i \in Instances |-> "start"]
    /\ srv = [i \in Instances |-> NewServer]
    /\ nInt = [i \in Instances |-> 0]
    /\ intAt = [i \in Instances |-> "never"]
    /\ browser = [i \in Instances |-> "pending"]
    /\ unhandled = [i \in Instances |-> "none"]
    /\ exitStatus = [i \in Instances |-> -1]
    /\ printed = [i \in Instances |-> <<>>]
    /\ everServed = [i \in Instances |-> FALSE]
    /\ busyAtBind = [i \in Instances |-> FALSE]
    /\ portOwner = 0
    /\ backlog = [i \in Instances |-> <<>>]
    /\ active = [i \in Instances |-> {}]
    /\ accepted = [i \in Instances |-> <<>>]
    /\ handled = [i \in Instances |-> <<>>]
    /\ sent = <<>>
    /\ conns = <<>>

\* The connections of a sequence of ids are reset.
RECURSIVE ResetAll(_, _)
ResetAll(out, ids) ==
    IF ids = <<>> THEN out
    ELSE ResetAll([out EXCEPT ![Head(ids)] = ConnReset], Tail(ids))

\* The with statement is left (TCPServer.__exit__ calls server_close) and
\* main() ends: with exception exc ("none": it returns) and exit status st.
LeaveWith(i, exc, st) ==
    /\ pc' = [pc EXCEPT ![i] = "exited"]
    /\ unhandled' = [unhandled EXCEPT ![i] = exc]
    /\ exitStatus' = [exitStatus EXCEPT ![i] = st]
    /\ portOwner' = IF portOwner = i THEN 0 ELSE portOwner
    /\ sent' = ResetAll(sent, backlog[i])
    /\ backlog' = [backlog EXCEPT ![i] = <<>>]

\* Line 19: TCPServer(("", PORT), Handler) binds and listens, or the
\* constructor closes the socket and raises OSError, which main() does
\* not catch.
Construct(i) ==
    /\ pc[i] = "start"
    /\ IF BindSucceeds(portOwner)
       THEN /\ srv' = [srv EXCEPT ![i] = Listen(@)]
            /\ pc' = [pc EXCEPT ![i] = "created"]
            /\ portOwner' = i
            /\ UNCHANGED <<unhandled, exitStatus>>
       ELSE /\ srv' = [srv EXCEPT ![i] = ServerClose(@)]
            /\ pc' = [pc EXCEPT ![i] = "exited"]
            /\ unhandled' = [unhandled EXCEPT ![i] = "OSError"]
            /\ exitStatus' = [exitStatus EXCEPT ![i] = 1]
            /\ UNCHANGED portOwner
    /\ busyAtBind' = [busyAtBind EXCEPT ![i] = (portOwner # 0)]
    /\ UNCHANGED <<nInt, intAt, browser, printed, everServed, backlog, active,
                   accepted, handled, sent, conns>>

\* Line 20, and line 21 up to the call of webbrowser.open.
Announce(i) ==
    /\ pc[i] = "created"
    /\ printed' = [printed EXCEPT ![i] = Append(@, "Serving documentation")]
    /\ pc' = [pc EXCEPT ![i] = "browser"]
    /\ UNCHANGED <<srv, nInt, intAt, browser, unhandled, exitStatus, everServed,
                   busyAtBind, portOwner, backlog, active, accepted, handled,
                   sent, conns>>

\* What webbrowser.open can do: return True (a browser was launched),
\* return False (none could be), or raise (webbrowser.Error, or what
\* building the browser's command line raises).
BrowserOutcomes == {"True", "False", "raised"}

\* Line 21 returns, its value dropped, and line 23 enters serve_forever;
\* or line 21 raises, outside the try statement.
BrowserDone(i) ==
    /\ pc[i] = "browser"
    /\ \E o \in BrowserOutcomes :
        /\ browser' = [browser EXCEPT ![i] = o]
        /\ IF o = "raised"
           THEN /\ LeaveWith(i, "Exception", 1)
                /\ srv' = [srv EXCEPT ![i] = ServerClose(@)]
                /\ UNCHANGED everServed
           ELSE /\ pc' = [pc EXCEPT ![i] = "select"]
                /\ srv' = [srv EXCEPT ![i] = ServeForeverEnter(@)]
                /\ everServed' = [everServed EXCEPT ![i] = TRUE]
                /\ UNCHANGED <<unhandled, exitStatus, portOwner, sent, backlog>>
    /\ UNCHANGED <<nInt, intAt, printed, busyAtBind, active, accepted, handled,
                   conns>>

\* A client connects to the port: the connection waits in the listening
\* socket's queue until the loop accepts it.
Connect ==
    /\ portOwner # 0
    /\ srv[portOwner].sock = "listening"
    /\ Len(conns) < MaxConn
    /\ \E c \in LifeConns :
        /\ conns' = Append(conns, c)
        /\ sent' = Append(sent, NoResp)
        /\ backlog' = [backlog EXCEPT ![portOwner] = Append(@, Len(conns) + 1)]
    /\ UNCHANGED <<pc, srv, nInt, intAt, browser, unhandled, exitStatus, printed,
                   everServed, busyAtBind, portOwner, active, accepted, handled>>

\* A server whose process_request hands the connection to a thread of its
\* own and returns to the loop.
AfterAcceptThreaded == "select"

\* TCPServer.process_request calls finish_request itself: the loop is in
\* the handler until the handler is done.
AfterAccept == "handling"

\* Line 23, one turn of the loop: select() reports the socket readable,
\* get_request() accepts the connection at the head of the queue and
\* process_request() starts its handler.
Accept(i) ==
    /\ pc[i] = "select"
    /\ backlog[i] # <<>>
    /\ LET c == Head(backlog[i]) IN
        /\ backlog' = [backlog EXCEPT ![i] = Tail(@)]
        /\ accepted' = [accepted EXCEPT ![i] = Append(@, c)]
        /\ active' = [active EXCEPT ![i] = @ \cup {c}]
        /\ pc' = [pc EXCEPT ![i] = AfterAccept]
    /\ UNCHANGED <<srv, nInt, intAt, browser, unhandled, exitStatus, printed,
                   everServed, busyAtBind, portOwner, handled, sent, conns>>

\* A loop that lets whatever the handler raises through.
CaughtNever(exc) == FALSE

\* _handle_request_noblock: "except Exception" takes what the handler
\* raises and goes on; the bare "except" re-raises anything else.
Caught(exc) == exc = "Exception"

\* Line 24: what main()'s try statement catches.
MainCatches(exc) == exc = "KeyboardInterrupt"

\* Lines 22-23: main() is inside the try statement.
InTry(p) == p \in {"select", "handling"}

\* An interrupted handler whose connection is left as it is.
AbortKeepsActive(i) == active[i]

\* _handle_request_noblock, its bare "except": shutdown_request(request)
\* closes the connection of the handler that was running.
AfterAbort(i) == {}

\* exc is raised while serve_forever() runs and is not caught inside it:
\* its finally clause runs, the handler's connection is closed, and line
\* 24 catches exc or main() is left with it.
LeaveServeForever(i, exc, st) ==
    /\ srv' = [srv EXCEPT ![i] =
                 IF MainCatches(exc) THEN ServeForeverLeave(@)
                 ELSE ServerClose(ServeForeverLeave(@))]
    /\ active' = [active EXCEPT ![i] = AfterAbort(i)]
    /\ handled' = [handled EXCEPT ![i] =
                     IF active[i] = {} THEN @
                     ELSE Append(@, CHOOSE c \in active[i] : TRUE)]
    /\ IF MainCatches(exc)
       THEN /\ pc' = [pc EXCEPT ![i] = "except"]
            /\ sent' = [c \in DOMAIN sent |->
                          IF c \in active[i] THEN ConnReset ELSE sent[c]]
            /\ UNCHANGED <<unhandled, exitStatus, portOwner, backlog>>
       ELSE /\ pc' = [pc EXCEPT ![i] = "exited"]
            /\ unhandled' = [unhandled EXCEPT ![i] = exc]
            /\ exitStatus' = [exitStatus EXCEPT ![i] = st]
            /\ portOwner' = IF portOwner = i THEN 0 ELSE portOwner
            /\ sent' = [c \in DOMAIN sent |->
                          IF c \in active[i] THEN ConnReset
                          ELSE ResetAll(sent, backlog[i])[c]]
            /\ backlog' = [backlog EXCEPT ![i] = <<>>]

\* The handler of the running connection ends: it has written its
\* response; or the client went away and the handler raised, which
\* handle_error() reports on the server's own stderr.
Finish(i) ==
    /\ pc[i] \in {"select", "handling"}
    /\ \E c \in active[i] :
        IF conns[c].drops /\ ~Caught("Exception")
        THEN /\ LeaveServeForever(i, "Exception", 1)
             /\ UNCHANGED <<nInt, intAt, browser, printed, everServed,
                            busyAtBind, accepted, conns>>
        ELSE /\ sent' = [sent EXCEPT ![c] =
                           IF conns[c].drops THEN ConnReset
                           ELSE DoRequest(conns[c].req)]
             /\ active' = [active EXCEPT ![i] = @ \ {c}]
             /\ handled' = [handled EXCEPT ![i] = Append(@, c)]
             /\ pc' = [pc EXCEPT ![i] = "select"]
             /\ UNCHANGED <<srv, nInt, intAt, browser, unhandled, exitStatus,
                            printed, everServed, busyAtBind, portOwner,
                            backlog, accepted, conns>>

\* The process receives SIGINT: KeyboardInterrupt is raised where main()
\* is. Inside the try statement serve_forever() is left, unless the loop
\* itself catches what a handler raises, and line 24 catches it; before
\* the try statement, or inside the except clause, nothing catches it and
\* the with statement is left with it.
Interrupt(i) ==
    /\ pc[i] \in Running
    /\ nInt[i] < MaxInterrupts
    /\ nInt' = [nInt EXCEPT ![i] = @ + 1]
    /\ intAt' = [intAt EXCEPT ![i] = IF nInt[i] = 0 THEN pc[i] ELSE @]
    /\ IF pc[i] = "handling" /\ Caught("KeyboardInterrupt")
       THEN /\ pc' = [pc EXCEPT ![i] = "select"]
            /\ sent' = [c \in DOMAIN sent |->
                          IF c \in active[i] THEN ConnReset ELSE sent[c]]
            /\ handled' = [handled EXCEPT ![i] =
                             Append(@, CHOOSE c \in active[i] : TRUE)]
            /\ active' = [active EXCEPT ![i] = {}]
            /\ UNCHANGED <<srv, unhandled, exitStatus, portOwner, backlog>>
       ELSE IF InTry(pc[i])
       THEN LeaveServeForever(i, "KeyboardInterrupt", 130)
       ELSE /\ LeaveWith(i, "KeyboardInterrupt", 130)
            /\ srv' = [srv EXCEPT ![i] = ServerClose(@)]
            /\ UNCHANGED <<active, handled>>
    /\ UNCHANGED <<browser, printed, everServed, busyAtBind, accepted, conns>>

\* Line 25, and line 26 up to the wait inside shutdown().
ExceptPrint(i) ==
    /\ pc[i] = "except"
    /\ printed' = [printed EXCEPT ![i] = Append(@, "Shutting down server...")]
    /\ srv' = [srv EXCEPT ![i] = ShutdownRequest(@)]
    /\ pc' = [pc EXCEPT ![i] = "shutdown"]
    /\ UNCHANGED <<nInt, intAt, browser, unhandled, exitStatus, everServed,
                   busyAtBind, portOwner, backlog, active, accepted, handled,
                   sent, conns>>

\* Line 26 returns, the with statement closes the server, main() returns
\* and the process exits with status 0.
MainReturn(i) ==
    /\ pc[i] = "shutdown"
    /\ ShutdownReturns(srv[i])
    /\ LeaveWith(i, "none", 0)
    /\ srv' = [srv EXCEPT ![i] = ServerClose(@)]
    /\ UNCHANGED <<nInt, intAt, browser, printed, everServed, busyAtBind,
                   active, accepted, handled, conns>>

\* ------------------------------------------------------ specifications
IdleRequest ==
    [method |-> "GET", abs |-> TRUE, segs |-> <<>>, slash |-> TRUE,
     ims |-> "absent", inm |-> FALSE]

IdleHTTP == req = IdleRequest /\ resp = NoResp
Idle == [at |-> "idle", loopWas |-> "-"]
IdleCall == obj = NewServer /\ callPc = Idle /\ calls = <<>>

Init == InitLife /\ IdleHTTP /\ IdleCall

Next ==
    \/ \E i \in Instances : Construct(i) /\ UNCHANGED <<httpVars, callVars>>
    \/ \E i \in Instances : Announce(i) /\ UNCHANGED <<httpVars, callVars>>
    \/ \E i \in Instances : BrowserDone(i) /\ UNCHANGED <<httpVars, callVars>>
    \/ Connect /\ UNCHANGED <<httpVars, callVars>>
    \/ \E i \in Instances : Accept(i) /\ UNCHANGED <<httpVars, callVars>>
    \/ \E i \in Instances : Finish(i) /\ UNCHANGED <<httpVars, callVars>>
    \/ \E i \in Instances : Interrupt(i) /\ UNCHANGED <<httpVars, callVars>>
    \/ \E i \in Instances : ExceptPrint(i) /\ UNCHANGED <<httpVars, callVars>>
    \/ \E i \in Instances : MainReturn(i) /\ UNCHANGED <<httpVars, callVars>>

\* The whole program: two processes started from the script, and clients.
Spec == Init /\ [][Next]_vars

\* The same, with the main thread going on once it is in its except
\* clause: nothing there waits for anything outside the process.
FairSpec ==
    /\ Spec
    /\ \A i \in Instances :
        /\ WF_vars(ExceptPrint(i) /\ UNCHANGED <<httpVars, callVars>>)
        /\ WF_vars(MainReturn(i) /\ UNCHANGED <<httpVars, callVars>>)

\* The request handler on every request of RequestSpace.
InitH == InitLife /\ InitHTTP /\ IdleCall
NextH == HandleRequest /\ UNCHANGED <<lifeVars, callVars>>
SpecHTTP == InitH /\ [][NextH]_vars

\* ------------------------------------------- the server object on its own
\* One TCPServer, the thread that runs its serve_forever() once (as line
\* 23 does) and a caller that calls shutdown() and server_close() in any
\* order and any number of times.
InitS ==
    /\ InitLife /\ IdleHTTP
    /\ obj = Listen(NewServer) /\ callPc = Idle /\ calls = <<>>

\* How the loop is, from what was done to obj.
LoopWas ==
    IF \E k \in DOMAIN calls : calls[k] = "stopped" THEN "stopped"
    ELSE IF \E k \in DOMAIN calls : calls[k] = "serve" THEN "running"
    ELSE "never"

HServe ==
    /\ LoopWas = "never"
    /\ obj.sock = "listening"
    /\ Len(calls) < MaxCalls
    /\ obj' = ServeForeverEnter(obj)
    /\ calls' = Append(calls, "serve")
    /\ UNCHANGED callPc

\* The loop sees __shutdown_request and ends.
HLoopSeesRequest ==
    /\ obj.loop /\ obj.shutdown_request
    /\ obj' = ServeForeverLeave(obj)
    /\ calls' = Append(calls, "stopped")
    /\ UNCHANGED callPc

\* An exception, as KeyboardInterrupt in main(), ends the loop.
HLoopInterrupted ==
    /\ obj.loop /\ ~obj.shutdown_request
    /\ obj' = ServeForeverLeave(obj)
    /\ calls' = Append(calls, "stopped")
    /\ UNCHANGED callPc

HShutdownCall ==
    /\ callPc.at = "idle"
    /\ Len(calls) < MaxCalls
    /\ obj' = ShutdownRequest(obj)
    /\ callPc' = [at |-> "inShutdown", loopWas |-> LoopWas]
    /\ UNCHANGED calls

HShutdownReturn ==
    /\ callPc.at = "inShutdown"
    /\ ShutdownReturns(obj)
    /\ callPc' = Idle
    /\ calls' = Append(calls, "shutdown")
    /\ UNCHANGED obj

HClose ==
    /\ callPc.at = "idle"
    /\ Len(calls) < MaxCalls
    /\ obj' = ServerClose(obj)
    /\ calls' = Append(calls, "close")
    /\ UNCHANGED callPc

NextS ==
    \/ HServe /\ UNCHANGED <<lifeVars, httpVars>>
    \/ HLoopSeesRequest /\ UNCHANGED <<lifeVars, httpVars>>
    \/ HLoopInterrupted /\ UNCHANGED <<lifeVars, httpVars>>
    \/ HShutdownCall /\ UNCHANGED <<lifeVars, httpVars>>
    \/ HShutdownReturn /\ UNCHANGED <<lifeVars, httpVars>>
    \/ HClose /\ UNCHANGED <<lifeVars, httpVars>>

SpecShutdown == InitS /\ [][NextS]_vars

\* ================================================================ claims

\* What a request path means to a client (RFC 3986, 5.2.4): "." segments
\* go, ".." takes the segment before it. up counts the ".." segments that
\* had nothing left to take: the path climbs above the root when up > 0.
RECURSIVE RemoveDots(_, _, _)
RemoveDots(segs, acc, up) ==
    IF segs = <<>> THEN [path |-> acc, up |-> up]
    ELSE LET c == Head(segs) IN
         IF c \in {".", ""} THEN RemoveDots(Tail(segs), acc, up)
         ELSE IF c \in {"..", "%2e%2e"}
              THEN IF acc = <<>> THEN RemoveDots(Tail(segs), acc, up + 1)
                   ELSE RemoveDots(Tail(segs), SubSeq(acc, 1, Len(acc) - 1), up)
         ELSE RemoveDots(Tail(segs), Append(acc, c), up)

Target(r) == DIRECTORY \o RemoveDots(r.segs, <<>>, 0).path
StaysInside(r) == RemoveDots(r.segs, <<>>, 0).up = 0
EndsInSlash(r) == r.slash \/ r.segs = <<>>
NamesFile(r) == IsFile(Target(r)) /\ ~EndsInSlash(r)
NothingAt(r) == ~Exists(Target(r))

OutsideContents == {FS[p].content : p \in {q \in DOMAIN FS : IsFile(q) /\ ~Inside(q)}}

StoppedOK(i) ==
    /\ State(i) = "Stopped"
    /\ ~srv[i].loop
    /\ srv[i].sock = "closed"
    /\ unhandled[i] = "none"
    /\ exitStatus[i] = 0

Rank(st) ==
    CASE st = "NotStarted" -> 0
      [] st = "Created" -> 1
      [] st = "Listening" -> 2
      [] st = "ShuttingDown" -> 3
      [] OTHER -> 4

IsPrefix(a, b) == Len(a) <= Len(b) /\ SubSeq(b, 1, Len(a)) = a
Increasing(q) == \A k \in 1..(Len(q) - 1) : q[k] < q[k + 1]
Has(q, x) == \E k \in DOMAIN q : q[k] = x

\* C1: an interrupt delivered to a server that is Listening (waiting in
\* select or inside a handler), and followed by no second interrupt, leads
\* to Stopped: the loop has ended, shutdown() has returned, the listening
\* socket is closed and the process has exited with status 0.
C1_InterruptStops ==
    \A i \in Instances :
        (nInt[i] = 1 /\ intAt[i] \in {"select", "handling"})
            ~> (nInt[i] > 1 \/ StoppedOK(i))

C1_Witness ==
    \E i \in Instances :
        nInt[i] = 1 /\ intAt[i] = "handling" /\ StoppedOK(i)
        /\ Has(printed[i], "Shutting down server...")

\* C2: an instance constructed while another instance's listening socket
\* holds the port fails with OSError: it never listens, never serves,
\* accepts and handles nothing and exits with a non-zero status; and its
\* failed start changes nothing of the instance that holds the port.
C2_SecondBindFails ==
    /\ [](\A j \in Instances :
            busyAtBind[j] =>
                /\ pc[j] = "exited"
                /\ unhandled[j] = "OSError"
                /\ exitStatus[j] > 0
                /\ srv[j].sock # "listening"
                /\ ~everServed[j]
                /\ accepted[j] = <<>> /\ handled[j] = <<>>)
    /\ [][\A j \in Instances :
            (pc[j] = "start" /\ pc'[j] # "start" /\ portOwner # 0) =>
                /\ portOwner' = portOwner
                /\ \A i \in Instances \ {j} :
                    pc'[i] = pc[i] /\ srv'[i] = srv[i] /\ backlog'[i] = backlog[i]]_vars

C2_Witness ==
    \E i, j \in Instances :
        /\ busyAtBind[j] /\ pc[j] = "exited"
        /\ State(i) = "Listening" /\ portOwner = i /\ handled[i] # <<>>

\* C3, as claimed: a GET whose path stays inside the root gets 200 and the
\* file's bytes when the path names a regular file, and 404 when nothing
\* is at the path.
C3_Original ==
    (resp # NoResp /\ req.method = "GET" /\ StaysInside(req)) =>
        /\ NamesFile(req) =>
             resp.status = 200 /\ resp.body = FS[Target(req)].content
        /\ NothingAt(req) => resp.status = 404

\* C3, amended: a GET whose path stays inside the root and names a regular
\* file the server can open gets 200 and the file's bytes, unless it
\* carries a well-formed GMT If-Modified-Since date without If-None-Match
\* and the file is not newer than that date, which gets 304 and no body;
\* a file the server
\* cannot open gets 404; and a path at which nothing is gets 404.
C3_Amended ==
    (resp # NoResp /\ req.method = "GET" /\ StaysInside(req)) =>
        /\ (NamesFile(req) /\ FS[Target(req)].readable) =>
             IF req.ims = "notOlder" /\ ~req.inm
             THEN resp.status = 304 /\ resp.body = ""
             ELSE /\ resp.status = 200
                  /\ resp.body = FS[Target(req)].content
                  /\ resp.from = Target(req)
        /\ (NamesFile(req) /\ ~FS[Target(req)].readable) => resp.status = 404
        /\ NothingAt(req) => resp.status = 404

C3_Witness ==
    /\ resp.status = 200 /\ resp.kind = "file"
    /\ req.method = "GET" /\ StaysInside(req) /\ NamesFile(req)
    /\ Len(req.segs) = 3 /\ Has(req.segs, "..")
    /\ req.ims = "older"

\* C4, as claimed: no response carries the content of a file outside the
\* root, and a request whose path climbs above the root is answered with
\* a rejection: it is served no file and no listing.
C4_Original ==
    resp # NoResp =>
        /\ resp.body \notin OutsideContents
        /\ resp.kind \in {"file", "listing"} => Inside(resp.from)
        /\ ~StaysInside(req) => resp.kind \notin {"file", "listing"}

\* C4, amended: no response carries the content of a file outside the
\* root: the ".." segments that would climb above the root are dropped,
\* and the request is answered as the request for the rest of its path
\* inside the root is, with 404 when nothing is there.
C4_Amended ==
    resp # NoResp =>
        /\ resp.body \notin OutsideContents
        /\ resp.kind \in {"file", "listing"} => Inside(resp.from)
        /\ resp.kind = "file" => resp.body = FS[resp.from].content
        /\ (req.method = "GET" /\ NothingAt(req)) => resp.status = 404
        /\ (req.method = "GET" /\ resp.kind = "file" /\ ~IsDir(Target(req)))
              => resp.from = Target(req)

C4_Witness ==
    /\ resp # NoResp /\ ~StaysInside(req)
    /\ req.method = "GET" /\ Has(req.segs, "secret.txt")
    /\ resp.status = 404
    /\ RemoveDots(req.segs, <<>>, 0).up = 2

\* C5: a step in which a handler ends otherwise than by an interrupt,
\* with an error response or because its client went away, leaves its
\* server Listening, waiting for the next connection, and changes what no
\* other client has received.
C5_RequestErrorsAreLocal ==
    [][\A i \in Instances :
        (handled'[i] # handled[i] /\ nInt'[i] = nInt[i]) =>
            /\ pc'[i] = "select"
            /\ srv'[i] = srv[i] /\ srv[i].sock = "listening" /\ srv[i].loop
            /\ exitStatus'[i] = -1 /\ unhandled'[i] = "none"
            /\ \A c \in DOMAIN sent : c \notin active[i] => sent'[c] = sent[c]]_vars

C5_Witness ==
    \E i \in Instances :
        /\ State(i) = "Listening"
        /\ Len(handled[i]) = 2
        /\ conns[handled[i][1]].req.segs = <<"locked.txt">>
        /\ sent[handled[i][1]].status = 404
        /\ sent[handled[i][2]].status = 200

\* C6: whatever webbrowser.open did, a server that was not interrupted
\* before its loop has entered serve_forever().
C6_BrowserFailureHarmless ==
    \A i \in Instances :
        (browser[i] # "pending" /\ intAt[i] \notin {"created", "browser"})
            => everServed[i]

\* C7: a single interrupt delivered once the listening socket exists is
\* caught: nothing leaves main(), and main() goes through its except
\* clause, printing the shutdown message.
C7_InterruptCaught ==
    \A i \in Instances :
        (nInt[i] = 1 /\ intAt[i] \in {"created", "browser", "select", "handling"}) =>
            /\ unhandled[i] = "none"
            /\ State(i) \in {"ShuttingDown", "Stopped"}
            /\ pc[i] \in {"shutdown", "exited"}
                  => Has(printed[i], "Shutting down server...")

\* C8: shutdown() called once the loop has stopped, a first time or
\* again, before or after server_close(), does not block, and leaves the
\* loop stopped and a closed socket closed.
C8_ShutdownIdempotent ==
    /\ (callPc.at = "inShutdown" /\ callPc.loopWas = "stopped")
          => ShutdownReturns(obj)
    /\ LoopWas = "stopped" => ~obj.loop
    /\ Has(calls, "close") => obj.sock = "closed"

C8_Witness ==
    /\ Len(calls) >= 5
    /\ calls[2] = "stopped" /\ calls[3] = "shutdown"
    /\ calls[4] = "close" /\ calls[5] = "shutdown"
    /\ callPc = Idle

\* C9: a handler runs only in a server that is Listening; the state of a
\* server never moves backwards along Created, Listening, ShuttingDown,
\* Stopped; and a server that has left Listening accepts and handles
\* nothing more.
C9_Lifecycle ==
    /\ [](\A i \in Instances : active[i] # {} => State(i) = "Listening")
    /\ [][\A i \in Instances :
            /\ Rank(State(i)') >= Rank(State(i))
            /\ Rank(State(i)) >= 3 =>
                 accepted'[i] = accepted[i] /\ handled'[i] = handled[i]]_vars

C9_Witness ==
    \E i \in Instances :
        /\ State(i) = "Stopped" /\ handled[i] # <<>>
        /\ \E j \in Instances : State(j) = "Listening" /\ active[j] # {}

\* C10: a server runs at most one handler at a time, accepts a connection
\* only when the handling of the one before has ended, and accepts and
\* handles connections in the order in which they were made.
C10_OneAtATime ==
    \A i \in Instances :
        /\ Cardinality(active[i]) <= 1
        /\ Len(accepted[i]) = Len(handled[i]) + Cardinality(active[i])
        /\ IsPrefix(handled[i], accepted[i])
        /\ Increasing(accepted[i])
        /\ \A k \in DOMAIN backlog[i] : \A m \in DOMAIN accepted[i] :
              accepted[i][m] < backlog[i][k]

C10_Witness ==
    \E i \in Instances :
        /\ Len(handled[i]) = 1 /\ Cardinality(active[i]) = 1
        /\ accepted[i] = <<1, 2>>
        /\ sent[1] # NoResp /\ sent[2] = NoResp

====
